---- MODULE Spec2Model ----
(***************************************************************************)
(* Model of src/databricks/simple_autoloader.py: a notebook that lists the *)
(* tables of one schema, lists the landing zone, and for each listed file  *)
(* resolves a table name from the path, skips it or reads it, appends it   *)
(* to the table and moves the file to the archive zone.                    *)
(*                                                                         *)
(* Python strings are sequences of one-character strings, so that          *)
(* re.search, str.split, str.lower and str.replace are computed the way    *)
(* the interpreter computes them.  Python's None is the empty sequence:    *)
(* the only test the notebook applies to it is `not table_name`, which     *)
(* None and '' both pass.                                                  *)
(*                                                                         *)
(* The external calls (spark.catalog.listTables, dbutils.fs.ls, the read,   *)
(* saveAsTable, dbutils.fs.mv) either return or raise.  The notebook has   *)
(* no try/except, so a raise ends the invocation (pc = "failed").          *)
(***************************************************************************)
EXTENDS Naturals, Sequences, FiniteSets

VARIABLES
    pc,          \* position of the notebook: "tables", "ls", "loop", "read",
                 \* "write", "mv", "complete", "failed" ("resolve"/"resolved"
                 \* in the resolver's own specification)
    run,         \* number of the current invocation
    failure,     \* the external call that raised in this invocation, or "none"
    registry,    \* external: table names of entity_resolution_dev.bronze
    landing,     \* external: paths present under landing_zone
    archive,     \* external: paths present under archive_zone
    tableRows,   \* external: committed appends, [table, source_file], in order
    tables,      \* notebook global `tables` (line 26)
    files,       \* notebook global `files` (line 50), paths in listing order
    i,           \* position of the for loop in `files` (line 51)
    file_path,   \* loop local (line 52)
    table_name,  \* loop local (line 53)
    df,          \* loop local (lines 78-84), NoDf when not built
    trace,       \* history: external calls and skips of this invocation
    mvFailed     \* history: paths whose move raised after their write committed

vars == <<pc, run, failure, registry, landing, archive, tableRows, tables,
          files, i, file_path, table_name, df, trace, mvFailed>>

(***************************************************************************)
(* Bounds of the model.                                                    *)
(***************************************************************************)
MaxFiles == 3   \* files present in the landing zone at the start
MaxRuns == 2    \* invocations of the notebook
MaxDepth == 1   \* directory segments put between a root and a basename

(***************************************************************************)
(* Characters.                                                             *)
(***************************************************************************)
LowerChars ==
    {"a", "b", "c", "d", "e", "f", "g", "h", "i", "j", "k", "l", "m",
     "n", "o", "p", "q", "r", "s", "t", "u", "v", "w", "x", "y", "z"}

UpperChars ==
    {"A", "B", "C", "D", "E", "F", "G", "H", "I", "J", "K", "L", "M",
     "N", "O", "P", "Q", "R", "S", "T", "U", "V", "W", "X", "Y", "Z"}

DigitChars == {"0", "1", "2", "3", "4", "5", "6", "7", "8", "9"}

\* the character class [a-zA-Z0-9_] of the pattern
WordChars == LowerChars \cup UpperChars \cup DigitChars \cup {"_"}

Max(S) == CHOOSE x \in S : \A y \in S : y <= x

Range(s) == {s[k] : k \in 1..Len(s)}

None == <<>>

(***************************************************************************)
(* CONFIGURATION (lines 19-23).                                            *)
(***************************************************************************)
landing_zone ==
    <<"s", "3", ":", "/", "/", "y", "o", "u", "r", "-", "b", "u", "c", "k",
      "e", "t", "/", "l", "a", "n", "d", "i", "n", "g", "-", "z", "o", "n",
      "e", "/">>

archive_zone ==
    <<"s", "3", ":", "/", "/", "y", "o", "u", "r", "-", "b", "u", "c", "k",
      "e", "t", "/", "a", "r", "c", "h", "i", "v", "e", "-", "z", "o", "n",
      "e", "/">>

catalog ==
    <<"e", "n", "t", "i", "t", "y", "_", "r", "e", "s", "o", "l", "u", "t",
      "i", "o", "n", "_", "d", "e", "v">>

schema == <<"b", "r", "o", "n", "z", "e">>

checkpoint_path ==
    <<"/", "t", "m", "p", "/", "a", "u", "t", "o", "l", "o", "a", "d", "e",
      "r", "/", "c", "h", "e", "c", "k", "p", "o", "i", "n", "t", "s">>

\* f'{catalog}.{schema}'
Namespace == catalog \o <<".">> \o schema

\* f'{catalog}.{schema}.{table_name}'
QualifiedName(name) == Namespace \o <<".">> \o name

(***************************************************************************)
(* extract_table_name (lines 30-36):                                       *)
(*   re.search(r'/([a-zA-Z0-9_]+)[^/]*\.', file_path)                      *)
(***************************************************************************)
\* the number of characters of [a-zA-Z0-9_] in a row from position k on
RECURSIVE WordRun(_, _)
WordRun(s, k) ==
    IF k > Len(s) \/ s[k] \notin WordChars THEN 0 ELSE 1 + WordRun(s, k + 1)

\* the lengths group 1 can take in an attempt at p: [a-zA-Z0-9_]+ takes the
\* whole run first and gives characters back one at a time
GroupRuns(s, p) == 1..WordRun(s, p + 1)

\* [^/]*\. matches right after position q: some characters other than '/'
\* up to position d - 1, then a literal dot at d
TailMatches(s, q) ==
    \E d \in (q + 1)..Len(s) :
        /\ s[d] = "."
        /\ \A j \in (q + 1)..(d - 1) : s[j] # "/"

\* the group-1 lengths with which the whole pattern matches at p
GroupLens(s, p) == {g \in GroupRuns(s, p) : TailMatches(s, p + g)}

\* the positions at which the pattern matches
MatchStarts(s) == {p \in 1..Len(s) : s[p] = "/" /\ GroupLens(s, p) # {}}

\* re.search returns the leftmost match: its position, or nothing
LeftmostMatch(s) ==
    {p \in MatchStarts(s) : \A q \in MatchStarts(s) : p <= q}

\* + is greedy, so group 1 of the match at p is the longest run with which
\* the rest of the pattern still matches
Group1(s, p) == SubSeq(s, p + 1, p + Max(GroupLens(s, p)))

extract_table_name(s) ==
    IF MatchStarts(s) = {}
    THEN None
    ELSE CHOOSE name \in {Group1(s, p) : p \in LeftmostMatch(s)} : TRUE

(***************************************************************************)
(* detect_format (lines 39-43).                                            *)
(***************************************************************************)
LowerOf(c) ==
    CASE c = "A" -> "a" [] c = "B" -> "b" [] c = "C" -> "c" [] c = "D" -> "d"
      [] c = "E" -> "e" [] c = "F" -> "f" [] c = "G" -> "g" [] c = "H" -> "h"
      [] c = "I" -> "i" [] c = "J" -> "j" [] c = "K" -> "k" [] c = "L" -> "l"
      [] c = "M" -> "m" [] c = "N" -> "n" [] c = "O" -> "o" [] c = "P" -> "p"
      [] c = "Q" -> "q" [] c = "R" -> "r" [] c = "S" -> "s" [] c = "T" -> "t"
      [] c = "U" -> "u" [] c = "V" -> "v" [] c = "W" -> "w" [] c = "X" -> "x"
      [] c = "Y" -> "y" [] c = "Z" -> "z" [] OTHER -> c

\* str.lower()
Lower(s) == [k \in 1..Len(s) |-> LowerOf(s[k])]

\* file_path.split('.')[-1]: what follows the last dot, or the whole string
LastDotPart(s) ==
    LET dots == {k \in 1..Len(s) : s[k] = "."}
    IN  IF dots = {} THEN s ELSE SubSeq(s, Max(dots) + 1, Len(s))

Csv == <<"c", "s", "v">>

Json == <<"j", "s", "o", "n">>

Parquet == <<"p", "a", "r", "q", "u", "e", "t">>

Txt == <<"t", "x", "t">>

detect_format(s) ==
    LET ext == Lower(LastDotPart(s))
    IN  IF ext \in {Csv, Json, Parquet, Txt} THEN ext ELSE Csv

(***************************************************************************)
(* options (lines 65-75).                                                  *)
(***************************************************************************)
SchemaLocation(name) ==
    checkpoint_path \o <<"/">> \o name
        \o <<"/", "s", "c", "h", "e", "m", "a">>

options(fmt, name) ==
    IF fmt = Csv
    THEN [format |-> fmt, schemaLocation |-> SchemaLocation(name),
          inferColumnTypes |-> "true", header |-> "true", delimiter |-> ","]
    ELSE IF fmt = Txt
    THEN [format |-> fmt, schemaLocation |-> SchemaLocation(name),
          inferColumnTypes |-> "true", header |-> "true", delimiter |-> "\t"]
    ELSE [format |-> fmt, schemaLocation |-> SchemaLocation(name),
          inferColumnTypes |-> "true"]

(***************************************************************************)
(* archive_path (line 93): archive_zone + file_path.replace(landing_zone,  *)
(* '').  str.replace removes every non-overlapping occurrence, scanning    *)
(* from the left.                                                          *)
(***************************************************************************)
RECURSIVE RemoveAll(_, _)
RemoveAll(s, old) ==
    IF Len(s) < Len(old)
    THEN s
    ELSE IF SubSeq(s, 1, Len(old)) = old
         THEN RemoveAll(SubSeq(s, Len(old) + 1, Len(s)), old)
         ELSE <<s[1]>> \o RemoveAll(Tail(s), old)

ArchivePathKeepsPrefix(p) == archive_zone \o p

archive_path(p) == archive_zone \o RemoveAll(p, landing_zone)

(***************************************************************************)
(* The files and tables of the modelled runs.                              *)
(***************************************************************************)
EdmDated ==
    <<"e", "d", "m", "_", "e", "n", "t", "i", "t", "y", "_", "2", "0", "2",
      "4", "-", "0", "6", "-", "0", "1", ".", "c", "s", "v">>

EdmPlain ==
    <<"e", "d", "m", "_", "e", "n", "t", "i", "t", "y", ".", "c", "s", "v">>

UnknownDated ==
    <<"u", "n", "k", "n", "o", "w", "n", "_", "t", "a", "b", "l", "e", "_",
      "2", "0", "2", "4", "-", "0", "6", "-", "0", "1", ".", "j", "s", "o",
      "n">>

NoExt == <<"n", "o", "e", "x", "t">>

edm_entity == <<"e", "d", "m", "_", "e", "n", "t", "i", "t", "y">>

edm_entity_2024 ==
    <<"e", "d", "m", "_", "e", "n", "t", "i", "t", "y", "_", "2", "0", "2",
      "4">>

\* names of the objects that may lie in the landing zone
BaseNames == {EdmDated, EdmPlain, UnknownDated, NoExt}

\* what dbutils.fs.ls(landing_zone) can return a path for
LandingPaths == {landing_zone \o b : b \in BaseNames}

\* table names the schema may hold
TableNames == {edm_entity, edm_entity_2024}

NoDf == [source_file |-> None, options |-> None]

Event(op, path, dest, ok) == [op |-> op, path |-> path, dest |-> dest, ok |-> ok]

\* the orders in which a listing may return the set S
Listings(S) ==
    {f \in [1..Cardinality(S) -> S] : \A a, b \in DOMAIN f : a # b => f[a] # f[b]}

(***************************************************************************)
(* State at the start of the first invocation.                             *)
(***************************************************************************)
Init ==
    /\ pc = "tables"
    /\ run = 1
    /\ failure = "none"
    /\ registry \in SUBSET TableNames
    /\ landing \in {S \in SUBSET LandingPaths : Cardinality(S) <= MaxFiles}
    /\ archive = {}
    /\ tableRows = <<>>
    /\ tables = {}
    /\ files = <<>>
    /\ i = 0
    /\ file_path = None
    /\ table_name = None
    /\ df = NoDf
    /\ trace = <<>>
    /\ mvFailed = {}

\* an unhandled exception of the external call `op` ends the invocation
Raise(op, path, dest) ==
    /\ pc' = "failed"
    /\ failure' = op
    /\ trace' = Append(trace, Event(op, path, dest, FALSE))

(***************************************************************************)
(* Line 26: tables = [t.name for t in spark.catalog.listTables(...)]       *)
(***************************************************************************)
ListTablesOk ==
    /\ pc = "tables"
    /\ tables' = registry
    /\ trace' = Append(trace, Event("listTables", None, Namespace, TRUE))
    /\ pc' = "ls"
    /\ UNCHANGED <<run, failure, registry, landing, archive, tableRows, files,
                   i, file_path, table_name, df, mvFailed>>

ListTablesFailSwallowed ==
    /\ pc = "tables"
    /\ tables' = {}
    /\ trace' = Append(trace, Event("listTables", None, Namespace, FALSE))
    /\ failure' = "listTables"
    /\ pc' = "ls"
    /\ UNCHANGED <<run, registry, landing, archive, tableRows, files,
                   i, file_path, table_name, df, mvFailed>>

ListTablesFail ==
    /\ pc = "tables"
    /\ Raise("listTables", None, Namespace)
    /\ UNCHANGED <<run, registry, landing, archive, tableRows, tables, files,
                   i, file_path, table_name, df, mvFailed>>

(***************************************************************************)
(* Line 50: files = dbutils.fs.ls(landing_zone)                            *)
(***************************************************************************)
LsOkSkipFirst ==
    /\ pc = "ls"
    /\ files' \in Listings(landing)
    /\ i' = 2
    /\ trace' = Append(trace, Event("ls", landing_zone, None, TRUE))
    /\ pc' = "loop"
    /\ UNCHANGED <<run, failure, registry, landing, archive, tableRows, tables,
                   file_path, table_name, df, mvFailed>>

LsOk ==
    /\ pc = "ls"
    /\ files' \in Listings(landing)
    /\ i' = 1
    /\ trace' = Append(trace, Event("ls", landing_zone, None, TRUE))
    /\ pc' = "loop"
    /\ UNCHANGED <<run, failure, registry, landing, archive, tableRows, tables,
                   file_path, table_name, df, mvFailed>>

LsFail ==
    /\ pc = "ls"
    /\ Raise("ls", landing_zone, None)
    /\ UNCHANGED <<run, registry, landing, archive, tableRows, tables, files,
                   i, file_path, table_name, df, mvFailed>>

(***************************************************************************)
(* Lines 51-59: the head of the for loop and the two skips.                *)
(***************************************************************************)
RegisteredAlways(name) == TRUE

\* line 57: table_name in tables
Registered(name) == name \in tables

\* lines 52-56: `not table_name`, print, continue
SkipUnresolved ==
    /\ pc = "loop"
    /\ i <= Len(files)
    /\ extract_table_name(files[i]) = None
    /\ file_path' = files[i]
    /\ table_name' = extract_table_name(files[i])
    /\ trace' = Append(trace, Event("skip", files[i], None, TRUE))
    /\ i' = i + 1
    /\ UNCHANGED <<pc, run, failure, registry, landing, archive, tableRows,
                   tables, files, df, mvFailed>>

SkipUnregisteredFallsThrough ==
    /\ pc = "loop"
    /\ i <= Len(files)
    /\ extract_table_name(files[i]) # None
    /\ ~Registered(extract_table_name(files[i]))
    /\ file_path' = files[i]
    /\ table_name' = extract_table_name(files[i])
    /\ trace' = Append(trace, Event("skip", files[i], None, TRUE))
    /\ pc' = "read"
    /\ UNCHANGED <<run, failure, registry, landing, archive, tableRows,
                   tables, files, i, df, mvFailed>>

\* lines 52-53, 57-59: `table_name not in tables`, print, continue
SkipUnregistered ==
    /\ pc = "loop"
    /\ i <= Len(files)
    /\ extract_table_name(files[i]) # None
    /\ ~Registered(extract_table_name(files[i]))
    /\ file_path' = files[i]
    /\ table_name' = extract_table_name(files[i])
    /\ trace' = Append(trace, Event("skip", files[i], None, TRUE))
    /\ i' = i + 1
    /\ UNCHANGED <<pc, run, failure, registry, landing, archive, tableRows,
                   tables, files, df, mvFailed>>

\* lines 52-62: both tests pass, the file is processed
Process ==
    /\ pc = "loop"
    /\ i <= Len(files)
    /\ extract_table_name(files[i]) # None
    /\ Registered(extract_table_name(files[i]))
    /\ file_path' = files[i]
    /\ table_name' = extract_table_name(files[i])
    /\ pc' = "read"
    /\ UNCHANGED <<run, failure, registry, landing, archive, tableRows,
                   tables, files, i, df, trace, mvFailed>>

\* line 97: the listing is exhausted
Complete ==
    /\ pc = "loop"
    /\ i > Len(files)
    /\ pc' = "complete"
    /\ UNCHANGED <<run, failure, registry, landing, archive, tableRows,
                   tables, files, i, file_path, table_name, df, trace,
                   mvFailed>>

(***************************************************************************)
(* Lines 61-84: format, options, the read and the two added columns.       *)
(***************************************************************************)
ReadOk ==
    /\ pc = "read"
    /\ df' = [source_file |-> file_path,
              options |-> options(detect_format(file_path), table_name)]
    /\ trace' = Append(trace,
                       Event("read", file_path, detect_format(file_path), TRUE))
    /\ pc' = "write"
    /\ UNCHANGED <<run, failure, registry, landing, archive, tableRows,
                   tables, files, i, file_path, table_name, mvFailed>>

ReadFailContinues ==
    /\ pc = "read"
    /\ trace' = Append(trace,
                       Event("read", file_path, detect_format(file_path), FALSE))
    /\ failure' = "read"
    /\ i' = i + 1
    /\ pc' = "loop"
    /\ UNCHANGED <<run, registry, landing, archive, tableRows, tables, files,
                   file_path, table_name, df, mvFailed>>

ReadFail ==
    /\ pc = "read"
    /\ Raise("read", file_path, detect_format(file_path))
    /\ UNCHANGED <<run, registry, landing, archive, tableRows, tables, files,
                   i, file_path, table_name, df, mvFailed>>

(***************************************************************************)
(* Lines 86-90: df.write...mode('append').saveAsTable(...)                 *)
(***************************************************************************)
WriteOkDeduplicates ==
    /\ pc = "write"
    /\ tableRows' =
           IF \E k \in 1..Len(tableRows) :
                  tableRows[k].source_file = df.source_file
           THEN tableRows
           ELSE Append(tableRows, [table |-> QualifiedName(table_name),
                                   source_file |-> df.source_file])
    /\ trace' = Append(trace,
                       Event("write", file_path, QualifiedName(table_name), TRUE))
    /\ pc' = "mv"
    /\ UNCHANGED <<run, failure, registry, landing, archive, tables, files,
                   i, file_path, table_name, df, mvFailed>>

WriteOk ==
    /\ pc = "write"
    /\ tableRows' = Append(tableRows, [table |-> QualifiedName(table_name),
                                       source_file |-> df.source_file])
    /\ trace' = Append(trace,
                       Event("write", file_path, QualifiedName(table_name), TRUE))
    /\ pc' = "mv"
    /\ UNCHANGED <<run, failure, registry, landing, archive, tables, files,
                   i, file_path, table_name, df, mvFailed>>

WriteFailSwallowed ==
    /\ pc = "write"
    /\ trace' = Append(trace,
                       Event("write", file_path, QualifiedName(table_name), FALSE))
    /\ failure' = "write"
    /\ pc' = "mv"
    /\ UNCHANGED <<run, registry, landing, archive, tableRows, tables, files,
                   i, file_path, table_name, df, mvFailed>>

WriteFail ==
    /\ pc = "write"
    /\ Raise("write", file_path, QualifiedName(table_name))
    /\ UNCHANGED <<run, registry, landing, archive, tableRows, tables, files,
                   i, file_path, table_name, df, mvFailed>>

(***************************************************************************)
(* Lines 92-95: archive_path, dbutils.fs.mv, print; then the next file.    *)
(***************************************************************************)
MvOk ==
    /\ pc = "mv"
    /\ landing' = landing \ {file_path}
    /\ archive' = archive \cup {archive_path(file_path)}
    /\ trace' = Append(trace,
                       Event("mv", file_path, archive_path(file_path), TRUE))
    /\ i' = i + 1
    /\ pc' = "loop"
    /\ UNCHANGED <<run, failure, registry, tableRows, tables, files,
                   file_path, table_name, df, mvFailed>>

MvFail ==
    /\ pc = "mv"
    /\ Raise("mv", file_path, archive_path(file_path))
    /\ mvFailed' = mvFailed \cup {file_path}
    /\ UNCHANGED <<run, registry, landing, archive, tableRows, tables, files,
                   i, file_path, table_name, df>>

(***************************************************************************)
(* The notebook is invoked again (a scheduled or triggered job): its       *)
(* globals are rebuilt from line 19 on, the external state stays.          *)
(***************************************************************************)
Invoke ==
    /\ pc \in {"complete", "failed"}
    /\ run < MaxRuns
    /\ run' = run + 1
    /\ pc' = "tables"
    /\ failure' = "none"
    /\ tables' = {}
    /\ files' = <<>>
    /\ i' = 0
    /\ file_path' = None
    /\ table_name' = None
    /\ df' = NoDf
    /\ trace' = <<>>
    /\ UNCHANGED <<registry, landing, archive, tableRows, mvFailed>>

Next ==
    \/ ListTablesOk
    \/ ListTablesFail
    \/ LsOk
    \/ LsFail
    \/ SkipUnresolved
    \/ SkipUnregistered
    \/ Process
    \/ Complete
    \/ ReadOk
    \/ ReadFail
    \/ WriteOk
    \/ WriteFail
    \/ MvOk
    \/ MvFail
    \/ Invoke

Spec == Init /\ [][Next]_vars

(***************************************************************************)
(* The resolver on its own: extract_table_name applied to one path drawn   *)
(* from roots, directory segments and basenames.                           *)
(***************************************************************************)
DotBucketRoot ==
    <<"s", "3", ":", "/", "/", "m", "y", ".", "b", "u", "c", "k", "e", "t",
      "/">>

PlainBucketRoot ==
    <<"s", "3", ":", "/", "/", "b", "u", "c", "k", "e", "t", "/">>

LandingDir == <<"l", "a", "n", "d", "i", "n", "g", "/">>

DotDir == <<"i", "n", ".", "b", "o", "x", "/">>

DashCsv == <<"-", "x", ".", "c", "s", "v">>

OrdersTxt == <<"O", "r", "d", "e", "r", "s", ".", "T", "X", "T">>

Roots == {landing_zone, DotBucketRoot, PlainBucketRoot}

DirSegments == {LandingDir, DotDir}

\* the concatenations of at most n directory segments
RECURSIVE DirParts(_)
DirParts(n) ==
    IF n = 0
    THEN {<<>>}
    ELSE DirParts(n - 1) \cup {d \o seg : d \in DirParts(n - 1), seg \in DirSegments}

ResolveBaseNames == BaseNames \cup {DashCsv, OrdersTxt}

ResolvePaths ==
    {r \o d \o b : r \in Roots, d \in DirParts(MaxDepth), b \in ResolveBaseNames}

\* what follows the last '/' of a path
BaseNameOf(s) ==
    LET seps == {k \in 1..Len(s) : s[k] = "/"}
    IN  IF seps = {} THEN s ELSE SubSeq(s, Max(seps) + 1, Len(s))

InitResolve ==
    /\ pc = "resolve"
    /\ run = 1
    /\ failure = "none"
    /\ registry = {}
    /\ landing = {}
    /\ archive = {}
    /\ tableRows = <<>>
    /\ tables = {}
    /\ files = <<>>
    /\ i = 0
    /\ file_path \in ResolvePaths
    /\ table_name = None
    /\ df = NoDf
    /\ trace = <<>>
    /\ mvFailed = {}

\* line 53: table_name = extract_table_name(file_path)
Resolve ==
    /\ pc = "resolve"
    /\ table_name' = extract_table_name(file_path)
    /\ pc' = "resolved"
    /\ UNCHANGED <<run, failure, registry, landing, archive, tableRows, tables,
                   files, i, file_path, df, trace, mvFailed>>

SpecResolve == InitResolve /\ [][Resolve]_vars

(***************************************************************************)
(* The runs in which no external call raises.                              *)
(***************************************************************************)
NextNoFail ==
    \/ ListTablesOk
    \/ LsOk
    \/ SkipUnresolved
    \/ SkipUnregistered
    \/ Process
    \/ Complete
    \/ ReadOk
    \/ WriteOk
    \/ MvOk
    \/ Invoke

\* the notebook is sequential and every external call that does not raise
\* returns, so a run that can take a step takes one
SpecNoFail == Init /\ [][NextNoFail]_vars /\ WF_vars(NextNoFail)

(***************************************************************************)
(* Vocabulary of the properties.                                           *)
(***************************************************************************)
\* the path relative to the landing root
RelativePath(p) == SubSeq(p, Len(landing_zone) + 1, Len(p))

\* the archive root followed by the path relative to the landing root
SameRelativeArchivePath(p) == archive_zone \o RelativePath(p)

\* resolved and registered in the snapshot of this invocation
Eligible(p) ==
    LET name == extract_table_name(p)
    IN  name # None /\ name \in tables

\* the positions of the events of `op` on path p in this invocation
EventsOf(op, p) ==
    {k \in 1..Len(trace) : trace[k].op = op /\ trace[k].path = p}

\* the number of committed appends whose source_file is p
CommitsIn(rows, p) ==
    Cardinality({k \in 1..Len(rows) : rows[k].source_file = p})

\* the invocation is between the committed write of trace[k] and its move
MovePending(k) == pc = "mv" /\ k = Len(trace)

(***************************************************************************)
(* C1.  A write to a table is attempted only for a file whose resolved     *)
(* name is defined and in the snapshot `tables` of this invocation, and    *)
(* the table written is catalog.schema.<resolved name>; every committed    *)
(* row lies in the table its source_file resolves to.                      *)
(***************************************************************************)
C1_WriteOnlyResolvedRegistered ==
    /\ \A k \in 1..Len(trace) :
           trace[k].op = "write" =>
               /\ extract_table_name(trace[k].path) # None
               /\ extract_table_name(trace[k].path) \in tables
               /\ trace[k].dest = QualifiedName(extract_table_name(trace[k].path))
    /\ \A k \in 1..Len(tableRows) :
           /\ extract_table_name(tableRows[k].source_file) \in registry
           /\ tableRows[k].table =
                  QualifiedName(extract_table_name(tableRows[k].source_file))
    /\ pc = "write" => Eligible(file_path) /\ table_name = extract_table_name(file_path)

\* a write has committed in this invocation while another listed file was
\* kept out of the tables
C1_Witness ==
    /\ \E k \in 1..Len(trace) : trace[k].op = "write" /\ trace[k].ok
    /\ \E k \in 1..Len(trace) : trace[k].op = "skip"
    /\ tableRows # <<>>

(***************************************************************************)
(* C2.  A move of a file is attempted only right after the write of that   *)
(* same file has committed in the same invocation; a listed file that has  *)
(* left the landing zone has a committed write; a failed write is followed *)
(* by no move and leaves the file in the landing zone.                     *)
(***************************************************************************)
C2_MoveOnlyAfterCommittedWrite ==
    /\ \A k \in 1..Len(trace) :
           trace[k].op = "mv" =>
               /\ k > 1
               /\ trace[k - 1].op = "write"
               /\ trace[k - 1].ok
               /\ trace[k - 1].path = trace[k].path
    /\ pc = "mv" =>
           /\ trace # <<>>
           /\ trace[Len(trace)] =
                  Event("write", file_path, QualifiedName(table_name), TRUE)
    /\ \A p \in Range(files) :
           p \notin landing => \E k \in EventsOf("write", p) : trace[k].ok
    /\ \A k \in 1..Len(trace) :
           (trace[k].op = "write" /\ ~trace[k].ok) =>
               /\ k = Len(trace)
               /\ trace[k].path \in landing
               /\ EventsOf("mv", trace[k].path) = {}

\* one file has been moved and the write of a later one has failed
C2_Witness ==
    /\ \E k \in 1..Len(trace) : trace[k].op = "mv" /\ trace[k].ok
    /\ \E k \in 1..Len(trace) : trace[k].op = "write" /\ ~trace[k].ok

(***************************************************************************)
(* C3 as stated.  Every file whose write committed has, once its iteration *)
(* is over, left the landing zone and is in the archive zone at the same   *)
(* relative path, moved exactly once, whatever the move call did.          *)
(***************************************************************************)
C3_EveryCommittedFileArchived ==
    \A k \in 1..Len(trace) :
        (trace[k].op = "write" /\ trace[k].ok /\ ~MovePending(k)) =>
            /\ trace[k].path \notin landing
            /\ SameRelativeArchivePath(trace[k].path) \in archive
            /\ Cardinality(EventsOf("mv", trace[k].path)) = 1

(***************************************************************************)
(* C3 amended.  For every file whose write committed exactly one move is   *)
(* attempted, right after the write, to the archive root followed by the   *)
(* path relative to the landing root.  When the move call returns the file *)
(* has left the landing zone and is at that archive path; when it raises   *)
(* the file is still in the landing zone and the invocation has ended.     *)
(***************************************************************************)
C3_OneMoveAttemptPerCommittedWrite ==
    \A k \in 1..Len(trace) :
        (trace[k].op = "write" /\ trace[k].ok /\ ~MovePending(k)) =>
            /\ k + 1 <= Len(trace)
            /\ trace[k + 1].op = "mv"
            /\ trace[k + 1].path = trace[k].path
            /\ trace[k + 1].dest = SameRelativeArchivePath(trace[k].path)
            /\ EventsOf("mv", trace[k].path) = {k + 1}
            /\ EventsOf("write", trace[k].path) = {k}
            /\ trace[k + 1].ok =>
                   /\ trace[k].path \notin landing
                   /\ SameRelativeArchivePath(trace[k].path) \in archive
            /\ ~trace[k + 1].ok =>
                   /\ trace[k].path \in landing
                   /\ k + 1 = Len(trace)
                   /\ pc = "failed"
                   /\ failure = "mv"

\* one file has been archived and the move of a later one has raised
C3_Witness ==
    /\ \E k \in 1..Len(trace) : trace[k].op = "mv" /\ trace[k].ok
    /\ \E k \in 1..Len(trace) : trace[k].op = "mv" /\ ~trace[k].ok

(***************************************************************************)
(* C4 as stated.  A failed read or write of one file leaves that file in   *)
(* the landing zone and does not end the invocation.                       *)
(***************************************************************************)
C4_FileFailureDoesNotAbort ==
    \A k \in 1..Len(trace) :
        (trace[k].op \in {"read", "write"} /\ ~trace[k].ok) =>
            /\ trace[k].path \in landing
            /\ pc # "failed"

(***************************************************************************)
(* C4 amended.  When the read or the write of one file fails, that file is *)
(* left in the landing zone unmoved and the invocation ends there: the     *)
(* failed call is its last, and every file listed after the failing one    *)
(* stays in the landing zone, neither read, written, moved nor skipped.    *)
(***************************************************************************)
C4_FileFailureLeavesFileAndEndsInvocation ==
    \A k \in 1..Len(trace) :
        (trace[k].op \in {"read", "write"} /\ ~trace[k].ok) =>
            /\ trace[k].path \in landing
            /\ EventsOf("mv", trace[k].path) = {}
            /\ k = Len(trace)
            /\ pc = "failed"
            /\ failure = trace[k].op
            /\ i \in 1..Len(files)
            /\ files[i] = trace[k].path
            /\ \A j \in (i + 1)..Len(files) :
                   /\ files[j] \in landing
                   /\ \A e \in 1..Len(trace) : trace[e].path # files[j]

\* a read or write has failed while an eligible file was still to come
C4_Witness ==
    /\ pc = "failed"
    /\ failure \in {"read", "write"}
    /\ \E j \in (i + 1)..Len(files) : Eligible(files[j])

(***************************************************************************)
(* C5.  A file whose name does not resolve or is not in the snapshot is    *)
(* skipped with no effect: no read, write or move of it is attempted, no   *)
(* row of it is committed, it is still in the landing zone and not in the  *)
(* archive zone, and the loop has gone on to the next listed file.         *)
(***************************************************************************)
C5_SkippedFileUntouched ==
    /\ \A j \in 1..Len(files) :
           (~Eligible(files[j]) /\ j < i) =>
               /\ Cardinality(EventsOf("skip", files[j])) = 1
               /\ EventsOf("read", files[j]) = {}
               /\ EventsOf("write", files[j]) = {}
               /\ EventsOf("mv", files[j]) = {}
               /\ CommitsIn(tableRows, files[j]) = 0
               /\ files[j] \in landing
               /\ SameRelativeArchivePath(files[j]) \notin archive
    /\ \A k \in 1..Len(trace) :
           trace[k].op = "skip" =>
               /\ ~Eligible(trace[k].path)
               /\ \E j \in 1..Len(files) : j < i /\ files[j] = trace[k].path
    /\ (trace # <<>> /\ trace[Len(trace)].op = "skip") =>
           /\ pc \in {"loop", "read", "complete"}
           /\ failure = "none"
           /\ files[i - 1] = trace[Len(trace)].path
    /\ pc \in {"read", "write", "mv"} => Eligible(file_path)

\* an unresolved and an unregistered file have been skipped and the loop
\* has gone on to read a later file
C5_Witness ==
    /\ \E k \in 1..Len(trace) :
           trace[k].op = "skip" /\ extract_table_name(trace[k].path) = None
    /\ \E k \in 1..Len(trace) :
           trace[k].op = "skip" /\ extract_table_name(trace[k].path) # None
    /\ trace[Len(trace)].op = "read"

(***************************************************************************)
(* C6 as stated.  The listed path landing_zone/edm_entity_2024-06-01.csv   *)
(* resolves to edm_entity, and when the snapshot holds edm_entity a        *)
(* completed invocation has appended the file to                           *)
(* catalog.schema.edm_entity and archived it.                              *)
(***************************************************************************)
C6_DatedFileResolvesToEdmEntity ==
    /\ (file_path = landing_zone \o EdmDated /\ pc \in {"loop", "read"}) =>
           table_name = edm_entity
    /\ (/\ pc = "complete"
        /\ landing_zone \o EdmDated \in Range(files)
        /\ edm_entity \in tables) =>
           /\ \E k \in 1..Len(tableRows) :
                  tableRows[k] = [table |-> QualifiedName(edm_entity),
                                  source_file |-> landing_zone \o EdmDated]
           /\ landing_zone \o EdmDated \notin landing
           /\ SameRelativeArchivePath(landing_zone \o EdmDated) \in archive

(***************************************************************************)
(* C7 as stated.  For every path whose basename holds no dot, whatever its *)
(* directory part, extract_table_name returns None.                        *)
(***************************************************************************)
C7_NoDotBasenameUnresolved ==
    (pc = "resolved" /\ "." \notin Range(BaseNameOf(file_path))) =>
        table_name = None

(***************************************************************************)
(* C8.  When no external call raises, a completed invocation has called    *)
(* listTables and ls once and then, file by file in listing order, either  *)
(* skipped the file or read, written and moved it, each once and nothing   *)
(* else; no path is listed twice; with an empty listing there is no write  *)
(* and no move; and every invocation that starts reaches "complete".       *)
(***************************************************************************)
RECURSIVE ExpectedSteps(_)
ExpectedSteps(fs) ==
    IF fs = <<>>
    THEN <<>>
    ELSE LET p == Head(fs)
             steps ==
                 IF Eligible(p)
                 THEN <<Event("read", p, detect_format(p), TRUE),
                        Event("write", p, QualifiedName(extract_table_name(p)), TRUE),
                        Event("mv", p, SameRelativeArchivePath(p), TRUE)>>
                 ELSE <<Event("skip", p, None, TRUE)>>
         IN  steps \o ExpectedSteps(Tail(fs))

C8_CompleteRunState ==
    pc = "complete" =>
        /\ trace = <<Event("listTables", None, Namespace, TRUE),
                     Event("ls", landing_zone, None, TRUE)>>
                   \o ExpectedSteps(files)
        /\ \A a, b \in 1..Len(files) : a # b => files[a] # files[b]
        /\ \A p \in Range(files) : p \in landing <=> ~Eligible(p)
        /\ files = <<>> =>
               \A k \in 1..Len(trace) : trace[k].op \notin {"write", "mv"}

C8_EachEligibleFileOnceInOrder ==
    /\ []C8_CompleteRunState
    /\ (pc = "tables") ~> (pc = "complete")

\* a second invocation has completed on the landing zone that the first one
\* emptied by processing two files
C8_Witness ==
    /\ run = 2
    /\ pc = "complete"
    /\ files = <<>>
    /\ landing = {}
    /\ Len(tableRows) = 2
    /\ Cardinality(archive) = 2

(***************************************************************************)
(* C9.  listTables is the first call of an invocation and is called once,  *)
(* before ls and before any file is touched; when it raises the invocation *)
(* has ended with that single call, no listing, and the landing zone, the  *)
(* archive zone and the tables as they were; once taken, the snapshot      *)
(* `tables` does not change for the rest of the invocation.                *)
(***************************************************************************)
C9_RegistryFirstState ==
    /\ pc = "tables" => trace = <<>> /\ files = <<>>
    /\ pc \notin {"tables", "resolve", "resolved"} =>
           /\ trace # <<>>
           /\ trace[1].op = "listTables"
           /\ \A k \in 2..Len(trace) : trace[k].op # "listTables"
           /\ trace[1].ok => tables = registry
    /\ failure = "listTables" =>
           /\ pc = "failed"
           /\ Len(trace) = 1
           /\ files = <<>>

C9_RegistryFirstStep ==
    /\ (pc = "tables" /\ pc' = "failed") =>
           UNCHANGED <<landing, archive, tableRows>>
    /\ (pc # "tables" /\ pc' # "tables") => tables' = tables

C9_RegistryReadOnceBeforeAnything ==
    /\ []C9_RegistryFirstState
    /\ [][C9_RegistryFirstStep]_vars

\* listTables has raised while the landing zone held a file of a table of
\* the schema
C9_Witness ==
    /\ pc = "failed"
    /\ failure = "listTables"
    /\ \E p \in landing : extract_table_name(p) \in registry

(***************************************************************************)
(* C10.  When the move raises after the write committed, the committed row *)
(* stays and the file stays in the landing zone; a later invocation that   *)
(* takes its snapshot lists the file, does not skip it, and its write      *)
(* appends the rows once more: every committed write adds one row for its  *)
(* file, whether or not the table already holds rows of that file.         *)
(***************************************************************************)
C10_AfterFailedMoveState ==
    \A p \in mvFailed :
        /\ CommitsIn(tableRows, p) >= 1
        /\ p \notin landing => SameRelativeArchivePath(p) \in archive
        /\ (p \in landing /\ pc \in {"loop", "read", "write", "mv", "complete"}) =>
               /\ p \in Range(files)
               /\ Eligible(p)
               /\ EventsOf("skip", p) = {}

C10_FailedMoveStep ==
    /\ (pc = "mv" /\ pc' = "failed") =>
           /\ tableRows' = tableRows
           /\ tableRows[Len(tableRows)].source_file = file_path
           /\ landing' = landing
           /\ file_path \in landing'
    /\ (pc = "write" /\ pc' = "mv") =>
           CommitsIn(tableRows', file_path) = CommitsIn(tableRows, file_path) + 1

C10_FailedMoveLeadsToSecondAppend ==
    /\ []C10_AfterFailedMoveState
    /\ [][C10_FailedMoveStep]_vars

\* the move of a file raised in the first invocation and the second one has
\* appended the file again
C10_Witness ==
    /\ run = 2
    /\ \E p \in mvFailed : CommitsIn(tableRows, p) = 2

====
